---- MODULE Spec2Model ----
(***************************************************************************)
(* Model of the waybar weather widget script                               *)
(*   src/dot_local/share/omarchy/default/waybar/custom/executable_weather.py *)
(*                                                                         *)
(* The state is that of one run of main(): the position pc, the locals of  *)
(* main, what was written to standard output, the exit status (-1 while    *)
(* the process runs) and the log of the network requests with their        *)
(* outcomes.                                                               *)
(*                                                                         *)
(* Conventions of the translation                                          *)
(*  - a Python dict is a function whose DOMAIN is its set of keys;         *)
(*  - a Python list is a sequence; Python indices are 0-based, so the      *)
(*    Python expression a[i] is a[i + 1] here;                             *)
(*  - a call that may raise returns [ok |-> TRUE, val |-> v] or            *)
(*    [ok |-> FALSE, exc |-> "<exception class>"];                         *)
(*  - an ISO-8601 string is the tuple of its fields: <<date, hour,         *)
(*    minute>> for a timestamp, <<date>> for a date, <<>> for a string     *)
(*    that does not parse; a date is a day number;                         *)
(*  - an f-string is the record of the values substituted into it, an      *)
(*    icon is named by an ASCII word;                                      *)
(*  - temperatures are integers (degrees Celsius), precipitation amounts   *)
(*    are integers (tenths of a millimetre, so the ".1f" format is exact). *)
(***************************************************************************)
EXTENDS Integers, Sequences, FiniteSets, TLC

VARIABLES pc, loc, data, now, weather, text, lines, stdout, exitcode, requests,
          call

vars == <<pc, loc, data, now, weather, text, lines, stdout, exitcode, requests,
          call>>

mainVars == <<pc, loc, data, now, weather, text, lines, stdout, exitcode, requests>>

(***************************************************************************)
(* Bounds of the model                                                     *)
(***************************************************************************)
MaxLen == 2

MaxDays == 3

MaxTemp == 36

(***************************************************************************)
(* Python values and helpers                                               *)
(***************************************************************************)
None == [none |-> TRUE]

\* a local of main that is not assigned yet
Unset == [unset |-> TRUE]

Ok(v) == [ok |-> TRUE, val |-> v]

Raise(e) == [ok |-> FALSE, exc |-> e]

Min(a, b) == IF a <= b THEN a ELSE b

\* d.get(k, default)
Get(d, k, default) == IF k \in DOMAIN d THEN d[k] ELSE default

\* [v] * n
Repeat(v, n) == [i \in 1..n |-> v]

(***************************************************************************)
(* Module constants, lines 9-75                                            *)
(***************************************************************************)
DAYS_FORECAST == 5

WEATHER_MAP ==
    [c \in {0, 1, 2, 3, 45, 48, 51, 53, 55, 61, 63, 65, 66, 67, 71, 73, 75,
            80, 81, 82, 95, 96, 99} |->
      CASE c = 0 -> <<"sun", "Clear sky">>
        [] c = 1 -> <<"sun_small_cloud", "Mainly clear">>
        [] c = 2 -> <<"sun_behind_cloud", "Partly cloudy">>
        [] c = 3 -> <<"cloud", "Overcast">>
        [] c = 45 -> <<"fog", "Fog">>
        [] c = 48 -> <<"fog", "Depositing rime fog">>
        [] c = 51 -> <<"sun_rain_cloud", "Light drizzle">>
        [] c = 53 -> <<"sun_rain_cloud", "Moderate drizzle">>
        [] c = 55 -> <<"sun_rain_cloud", "Dense drizzle">>
        [] c = 61 -> <<"rain_cloud", "Slight rain">>
        [] c = 63 -> <<"rain_cloud", "Moderate rain">>
        [] c = 65 -> <<"rain_cloud", "Heavy rain">>
        [] c = 66 -> <<"rain_cloud", "Light freezing rain">>
        [] c = 67 -> <<"rain_cloud", "Heavy freezing rain">>
        [] c = 71 -> <<"snowflake", "Slight snow">>
        [] c = 73 -> <<"snowflake", "Moderate snow">>
        [] c = 75 -> <<"snowflake", "Heavy snow">>
        [] c = 80 -> <<"sun_rain_cloud", "Slight rain showers">>
        [] c = 81 -> <<"rain_cloud", "Moderate rain showers">>
        [] c = 82 -> <<"rain_cloud", "Violent rain showers">>
        [] c = 95 -> <<"thunder_cloud", "Thunderstorm">>
        [] c = 96 -> <<"thunder_cloud", "Thunderstorm with hail (slight)">>
        [] c = 99 -> <<"thunder_cloud", "Thunderstorm with hail (severe)">>]

SHORT_DESC_MAP ==
    [d \in {"Slight rain showers", "Moderate rain showers", "Violent rain showers",
            "Thunderstorm with hail (slight)", "Thunderstorm with hail (severe)",
            "Light drizzle", "Moderate drizzle", "Dense drizzle", "Slight rain",
            "Moderate rain", "Heavy rain", "Light freezing rain",
            "Heavy freezing rain", "Slight snow", "Moderate snow", "Heavy snow",
            "Clear sky", "Mainly clear", "Partly cloudy", "Overcast", "Fog",
            "Depositing rime fog"} |->
      CASE d = "Slight rain showers" -> "Slight rain"
        [] d = "Moderate rain showers" -> "Moderate rain"
        [] d = "Violent rain showers" -> "Heavy rain"
        [] d = "Thunderstorm with hail (slight)" -> "Hail Storm"
        [] d = "Thunderstorm with hail (severe)" -> "Severe Storm"
        [] d = "Light drizzle" -> "Drizzle"
        [] d = "Moderate drizzle" -> "Mod drizzle"
        [] d = "Dense drizzle" -> "Dense drizzle"
        [] d = "Slight rain" -> "Slight rain"
        [] d = "Moderate rain" -> "Mod rain"
        [] d = "Heavy rain" -> "Heavy rain"
        [] d = "Light freezing rain" -> "Freezing rain"
        [] d = "Heavy freezing rain" -> "Heavy freeze"
        [] d = "Slight snow" -> "Snow"
        [] d = "Moderate snow" -> "Mod snow"
        [] d = "Heavy snow" -> "Heavy snow"
        [] d = "Clear sky" -> "Clear"
        [] d = "Mainly clear" -> "Mainly clear"
        [] d = "Partly cloudy" -> "Part cloudy"
        [] d = "Overcast" -> "Overcast"
        [] d = "Fog" -> "Fog"
        [] d = "Depositing rime fog" -> "Rime fog"]

FG_HEADER == "#f4b8e4"

FG_TEXT == "#ffffff"

TEMP_COLORS ==
    << <<15, "#8caaee">>, <<18, "#85c1dc">>, <<21, "#99d1db">>, <<24, "#81c8be">>,
       <<27, "#a6d189">>, <<30, "#e5c890">>, <<32, "#ef9f76">>, <<33, "#ea999c">>,
       <<100, "#e78284">> >>

(***************************************************************************)
(* temp_to_color, lines 78-83: the for loop from entry i on                *)
(***************************************************************************)
RECURSIVE temp_to_color_loop(_, _)
temp_to_color_loop(temp, i) ==
    IF i > Len(TEMP_COLORS) THEN TEMP_COLORS[Len(TEMP_COLORS)][2]
    ELSE IF temp <= TEMP_COLORS[i][1] THEN TEMP_COLORS[i][2]
    ELSE temp_to_color_loop(temp, i + 1)

RECURSIVE temp_to_color_strict_loop(_, _)
temp_to_color_strict_loop(temp, i) ==
    IF i > Len(TEMP_COLORS) THEN TEMP_COLORS[Len(TEMP_COLORS)][2]
    ELSE IF temp < TEMP_COLORS[i][1] THEN TEMP_COLORS[i][2]
    ELSE temp_to_color_strict_loop(temp, i + 1)

\* faulty variant: the bound of a bucket is exclusive
temp_to_color_strict(temp) == temp_to_color_strict_loop(temp, 1)

temp_to_color(temp) == temp_to_color_loop(temp, 1)

\* get_weather_info, lines 86-88
get_weather_info(code) ==
    IF code \in DOMAIN WEATHER_MAP THEN WEATHER_MAP[code] ELSE <<"question", "Unknown">>

\* get_short_desc, lines 91-93
get_short_desc(desc) ==
    IF desc \in DOMAIN SHORT_DESC_MAP THEN SHORT_DESC_MAP[desc] ELSE desc

(***************************************************************************)
(* datetime                                                                *)
(***************************************************************************)
\* datetime.fromisoformat raises ValueError on a string that does not parse
IsIsoFormat(s) == Len(s) \in {1, 3}

\* datetime.fromisoformat: a date-only string is midnight of that date
fromisoformat(s) ==
    IF Len(s) = 3 THEN [date |-> s[1], hour |-> s[2], minute |-> s[3]]
    ELSE [date |-> s[1], hour |-> 0, minute |-> 0]

\* the order of datetime: minutes since day 0
Minutes(dt) == (dt.date * 24 + dt.hour) * 60 + dt.minute

\* dt.strftime("%H:%M"): the 24-hour clock
strftime_HM(dt) == <<dt.hour, dt.minute>>

\* dt.strftime("%I:%M %p"): the 12-hour clock with AM or PM
strftime_IMp(dt) ==
    <<((dt.hour + 11) % 12) + 1, dt.minute, IF dt.hour < 12 THEN "AM" ELSE "PM">>

\* calendar.day_name[d.weekday()][:3]; day 0 is a Monday
day_name3(dt) ==
    <<"Mon", "Tue", "Wed", "Thu", "Fri", "Sat", "Sun">>[(dt.date % 7) + 1]

\* max(xs) of a non-empty list
max(xs) == CHOOSE m \in {xs[i] : i \in 1..Len(xs)} : \A i \in 1..Len(xs) : xs[i] <= m

\* the number of tuples zip(a, b, c) yields
ZipLen(a, b, c) == Min(Len(a), Min(Len(b), Len(c)))

(***************************************************************************)
(* find_current_hour_index, lines 149-155: the for loop from entry i on    *)
(***************************************************************************)
RECURSIVE find_current_hour_index_loop(_, _, _)
find_current_hour_index_loop(times, n, i) ==
    IF i > Len(times) THEN Ok(0)
    ELSE IF ~IsIsoFormat(times[i]) THEN Raise("ValueError")
    ELSE LET dt == fromisoformat(times[i])
         IN  IF dt.hour = n.hour /\ dt.date = n.date THEN Ok(i - 1)
             ELSE find_current_hour_index_loop(times, n, i + 1)

RECURSIVE find_current_hour_index_last_loop(_, _, _, _)
find_current_hour_index_last_loop(times, n, i, found) ==
    IF i > Len(times) THEN Ok(found)
    ELSE IF ~IsIsoFormat(times[i]) THEN Raise("ValueError")
    ELSE LET dt == fromisoformat(times[i])
         IN  find_current_hour_index_last_loop(times, n, i + 1,
                 IF dt.hour = n.hour /\ dt.date = n.date THEN i - 1 ELSE found)

\* faulty variant: the loop does not return at the first match, the last wins
find_current_hour_index_last(times, n) ==
    find_current_hour_index_last_loop(times, n, 1, 0)

find_current_hour_index(times, n) == find_current_hour_index_loop(times, n, 1)

(***************************************************************************)
(* extract_current_weather, lines 158-174                                  *)
(* A subscript of a value that is no dict raises TypeError where a missing *)
(* key raises KeyError; both are Exception and the model names both        *)
(* KeyError.                                                               *)
(***************************************************************************)
extract_current_weather(d, n) ==
    IF "current_weather" \notin DOMAIN d THEN Raise("KeyError")
    ELSE IF "hourly" \notin DOMAIN d THEN Raise("KeyError")
    ELSE IF "time" \notin DOMAIN d.hourly THEN Raise("KeyError")
    ELSE
    LET current == d.current_weather
        hourly == d.hourly
        times == hourly.time
        r == find_current_hour_index(times, n)
    IN  IF ~r.ok THEN r
        ELSE IF "temperature" \notin DOMAIN current THEN Raise("KeyError")
        ELSE IF "weathercode" \notin DOMAIN current THEN Raise("KeyError")
        ELSE
        LET idx == r.val
            feels == Get(hourly, "apparent_temperature",
                         Repeat(current.temperature, Len(times)))
            humidity == Get(hourly, "relativehumidity_2m", Repeat(0, Len(times)))
            windspeed == Get(hourly, "windspeed_10m", Repeat(0, Len(times)))
        IN  IF idx + 1 > Len(feels) THEN Raise("IndexError")
            ELSE IF idx + 1 > Len(humidity) THEN Raise("IndexError")
            ELSE IF idx + 1 > Len(windspeed) THEN Raise("IndexError")
            ELSE Ok([temp |-> current.temperature,
                     code |-> current.weathercode,
                     feels_like |-> feels[idx + 1],
                     humidity |-> humidity[idx + 1],
                     windspeed |-> windspeed[idx + 1]])

\* build_current_section, lines 177-189
build_current_section(w, location_name) ==
    LET info == get_weather_info(w.code)
    IN  << [fmt |-> "temp", temp |-> w.temp, color |-> temp_to_color(w.temp),
            feels_like |-> w.feels_like, feels_color |-> temp_to_color(w.feels_like)],
           [fmt |-> "desc", icon |-> info[1], desc |-> info[2]],
           [fmt |-> "humidity", value |-> w.humidity],
           [fmt |-> "wind", value |-> w.windspeed] >>

(***************************************************************************)
(* build_today_rain_info, lines 192-224                                    *)
(* acc holds the loop's locals rain_probs, rain_start_time, precip_total.  *)
(***************************************************************************)
\* faulty variant: every entry of today counts, also one before now
RECURSIVE rain_loop_whole_day(_, _, _, _, _, _)
rain_loop_whole_day(times, rain_arr, precip_arr, n, i, acc) ==
    IF i > ZipLen(times, rain_arr, precip_arr) THEN Ok(acc)
    ELSE IF ~IsIsoFormat(times[i]) THEN Raise("ValueError")
    ELSE LET dt == fromisoformat(times[i])
         IN  IF dt.date = n.date
             THEN rain_loop_whole_day(times, rain_arr, precip_arr, n, i + 1,
                    [rain_probs |-> Append(acc.rain_probs, rain_arr[i]),
                     precip_total |-> acc.precip_total + precip_arr[i],
                     rain_start_time |->
                         IF rain_arr[i] > 0 /\ acc.rain_start_time = None
                         THEN dt ELSE acc.rain_start_time])
             ELSE rain_loop_whole_day(times, rain_arr, precip_arr, n, i + 1, acc)

RECURSIVE rain_loop(_, _, _, _, _, _)
rain_loop(times, rain_arr, precip_arr, n, i, acc) ==
    IF i > ZipLen(times, rain_arr, precip_arr) THEN Ok(acc)
    ELSE IF ~IsIsoFormat(times[i]) THEN Raise("ValueError")
    ELSE LET dt == fromisoformat(times[i])
         IN  IF dt.date = n.date /\ Minutes(dt) >= Minutes(n)
             THEN rain_loop(times, rain_arr, precip_arr, n, i + 1,
                    [rain_probs |-> Append(acc.rain_probs, rain_arr[i]),
                     precip_total |-> acc.precip_total + precip_arr[i],
                     rain_start_time |->
                         IF rain_arr[i] > 0 /\ acc.rain_start_time = None
                         THEN dt ELSE acc.rain_start_time])
             ELSE rain_loop(times, rain_arr, precip_arr, n, i + 1, acc)

\* lines 211-224: the lines made of the loop's result
rain_lines(acc) ==
    IF acc.rain_probs # <<>> /\ max(acc.rain_probs) > 0
    THEN << [fmt |-> "chance", value |-> max(acc.rain_probs), color |-> FG_TEXT],
            IF acc.rain_start_time # None
            THEN [fmt |-> "start", value |-> strftime_IMp(acc.rain_start_time)]
            ELSE [fmt |-> "start_none_predicted"],
            [fmt |-> "total", value |-> acc.precip_total],
            [fmt |-> "empty"] >>
    ELSE <<>>

build_today_rain_info(hourly, n) ==
    IF "time" \notin DOMAIN hourly THEN Raise("KeyError")
    ELSE
    LET times == hourly.time
        rain_arr == Get(hourly, "precipitation_probability", Repeat(0, Len(times)))
        precip_arr == Get(hourly, "precipitation", Repeat(0, Len(times)))
        r == rain_loop(times, rain_arr, precip_arr, n, 1,
                       [rain_probs |-> <<>>, precip_total |-> 0,
                        rain_start_time |-> None])
    IN  IF ~r.ok THEN r ELSE Ok(rain_lines(r.val))

(***************************************************************************)
(* build_hourly_forecast, lines 227-249                                    *)
(***************************************************************************)
\* lines 241-247: the line of one entry
hourly_line(dt, temp, code) ==
    [fmt |-> "hourly", hour |-> strftime_HM(dt), color |-> temp_to_color(temp),
     temp |-> temp, icon |-> get_weather_info(code)[1],
     short_desc |-> get_short_desc(get_weather_info(code)[2])]

\* faulty variant: an entry at exactly now is skipped too
RECURSIVE hourly_loop_skip_now(_, _, _, _, _, _, _)
hourly_loop_skip_now(times, temps, codes, n, for_date, i, acc) ==
    IF i > ZipLen(times, temps, codes) THEN Ok(acc)
    ELSE IF ~IsIsoFormat(times[i]) THEN Raise("ValueError")
    ELSE LET dt == fromisoformat(times[i])
         IN  IF dt.date # for_date
             THEN hourly_loop_skip_now(times, temps, codes, n, for_date, i + 1, acc)
             ELSE IF for_date = n.date /\ Minutes(dt) <= Minutes(n)
             THEN hourly_loop_skip_now(times, temps, codes, n, for_date, i + 1, acc)
             ELSE hourly_loop_skip_now(times, temps, codes, n, for_date, i + 1,
                              Append(acc, hourly_line(dt, temps[i], codes[i])))

RECURSIVE hourly_loop(_, _, _, _, _, _, _)
hourly_loop(times, temps, codes, n, for_date, i, acc) ==
    IF i > ZipLen(times, temps, codes) THEN Ok(acc)
    ELSE IF ~IsIsoFormat(times[i]) THEN Raise("ValueError")
    ELSE LET dt == fromisoformat(times[i])
         IN  IF dt.date # for_date
             THEN hourly_loop(times, temps, codes, n, for_date, i + 1, acc)
             ELSE IF for_date = n.date /\ Minutes(dt) < Minutes(n)
             THEN hourly_loop(times, temps, codes, n, for_date, i + 1, acc)
             ELSE hourly_loop(times, temps, codes, n, for_date, i + 1,
                              Append(acc, hourly_line(dt, temps[i], codes[i])))

build_hourly_forecast(hourly, n, for_date) ==
    IF "time" \notin DOMAIN hourly THEN Raise("KeyError")
    ELSE IF "temperature_2m" \notin DOMAIN hourly THEN Raise("KeyError")
    ELSE IF "weathercode" \notin DOMAIN hourly THEN Raise("KeyError")
    ELSE
    LET r == hourly_loop(hourly.time, hourly.temperature_2m, hourly.weathercode,
                         n, for_date, 1, <<>>)
    IN  IF ~r.ok THEN r
        ELSE IF r.val # <<>> THEN r
        ELSE Ok(<< [fmt |-> "Hourly forecast unavailable"] >>)

(***************************************************************************)
(* build_tomorrow_forecast, lines 252-277                                  *)
(***************************************************************************)
TIME_LABELS ==
    [h \in {6, 12, 15, 18} |->
      CASE h = 6 -> "Morning" [] h = 12 -> "Midday"
        [] h = 15 -> "Afternoon" [] h = 18 -> "Evening"]

\* lines 270-275: the line of one entry
tomorrow_line(label, temp, code) ==
    [fmt |-> "tomorrow", label |-> label, color |-> temp_to_color(temp),
     temp |-> temp, icon |-> get_weather_info(code)[1],
     short_desc |-> get_short_desc(get_weather_info(code)[2])]

RECURSIVE tomorrow_loop(_, _, _, _, _, _)
tomorrow_loop(times, temps, codes, tomorrow, i, acc) ==
    IF i > ZipLen(times, temps, codes) THEN Ok(acc)
    ELSE IF ~IsIsoFormat(times[i]) THEN Raise("ValueError")
    ELSE LET dt == fromisoformat(times[i])
         IN  IF dt.date # tomorrow
             THEN tomorrow_loop(times, temps, codes, tomorrow, i + 1, acc)
             ELSE IF dt.hour \notin DOMAIN TIME_LABELS
             THEN tomorrow_loop(times, temps, codes, tomorrow, i + 1, acc)
             ELSE tomorrow_loop(times, temps, codes, tomorrow, i + 1,
                    Append(acc, tomorrow_line(TIME_LABELS[dt.hour], temps[i], codes[i])))

\* faulty variant: no placeholder line when no entry matches
build_tomorrow_forecast_no_placeholder(hourly, tomorrow) ==
    IF "time" \notin DOMAIN hourly THEN Raise("KeyError")
    ELSE IF "temperature_2m" \notin DOMAIN hourly THEN Raise("KeyError")
    ELSE IF "weathercode" \notin DOMAIN hourly THEN Raise("KeyError")
    ELSE tomorrow_loop(hourly.time, hourly.temperature_2m, hourly.weathercode,
                       tomorrow, 1, <<>>)

build_tomorrow_forecast(hourly, tomorrow) ==
    IF "time" \notin DOMAIN hourly THEN Raise("KeyError")
    ELSE IF "temperature_2m" \notin DOMAIN hourly THEN Raise("KeyError")
    ELSE IF "weathercode" \notin DOMAIN hourly THEN Raise("KeyError")
    ELSE
    LET r == tomorrow_loop(hourly.time, hourly.temperature_2m, hourly.weathercode,
                           tomorrow, 1, <<>>)
    IN  IF ~r.ok THEN r
        ELSE IF r.val # <<>> THEN r
        ELSE Ok(<< [fmt |-> "Tomorrow forecast unavailable"] >>)

(***************************************************************************)
(* build_daily_forecast, lines 280-299                                     *)
(***************************************************************************)
\* lines 289-297: the line of index i (0-based)
daily_line(dates, max_temps, min_temps, codes, i) ==
    [fmt |-> "daily", day_name |-> day_name3(fromisoformat(dates[i + 1])),
     max_color |-> temp_to_color(max_temps[i + 1]), max_temp |-> max_temps[i + 1],
     min_color |-> temp_to_color(min_temps[i + 1]), min_temp |-> min_temps[i + 1],
     icon |-> get_weather_info(codes[i + 1])[1],
     short_desc |-> get_short_desc(get_weather_info(codes[i + 1])[2])]

\* the for loop over range(1, stop) from index i (0-based) on
RECURSIVE daily_loop(_, _, _, _, _, _, _)
daily_loop(dates, max_temps, min_temps, codes, stop, i, acc) ==
    IF i >= stop THEN Ok(acc)
    ELSE IF ~IsIsoFormat(dates[i + 1]) THEN Raise("ValueError")
    ELSE IF i + 1 > Len(codes) THEN Raise("IndexError")
    ELSE IF i + 1 > Len(max_temps) THEN Raise("IndexError")
    ELSE IF i + 1 > Len(min_temps) THEN Raise("IndexError")
    ELSE daily_loop(dates, max_temps, min_temps, codes, stop, i + 1,
                    Append(acc, daily_line(dates, max_temps, min_temps, codes, i)))

\* faulty variant: the loop starts at index 0, today
build_daily_forecast_from_today(daily, days) ==
    IF "time" \notin DOMAIN daily THEN Raise("KeyError")
    ELSE IF "temperature_2m_max" \notin DOMAIN daily THEN Raise("KeyError")
    ELSE IF "temperature_2m_min" \notin DOMAIN daily THEN Raise("KeyError")
    ELSE IF "weathercode" \notin DOMAIN daily THEN Raise("KeyError")
    ELSE daily_loop(daily.time, daily.temperature_2m_max, daily.temperature_2m_min,
                    daily.weathercode, Min(days + 1, Len(daily.time)), 0, <<>>)

build_daily_forecast(daily, days) ==
    IF "time" \notin DOMAIN daily THEN Raise("KeyError")
    ELSE IF "temperature_2m_max" \notin DOMAIN daily THEN Raise("KeyError")
    ELSE IF "temperature_2m_min" \notin DOMAIN daily THEN Raise("KeyError")
    ELSE IF "weathercode" \notin DOMAIN daily THEN Raise("KeyError")
    ELSE daily_loop(daily.time, daily.temperature_2m_max, daily.temperature_2m_min,
                    daily.weathercode, Min(days + 1, Len(daily.time)), 1, <<>>)

(***************************************************************************)
(* render_section, lines 302-309, and build_tooltip, lines 312-317         *)
(* The rule's width max_len (max_line_length, lines 96-99) is the length   *)
(* of a string and is not modelled; it is defined for every list of lines. *)
(***************************************************************************)
render_section(ls, heading) ==
    << [fmt |-> "heading", foreground |-> FG_HEADER, heading |-> heading],
       [fmt |-> "rule"] >>
    \o [i \in 1..Len(ls) |-> [fmt |-> "body", foreground |-> FG_TEXT, line |-> ls[i]]]
    \o << [fmt |-> "empty"] >>

RECURSIVE build_tooltip(_)
build_tooltip(sections) ==
    IF sections = <<>> THEN <<>>
    ELSE render_section(sections[1][1], sections[1][2]) \o build_tooltip(Tail(sections))

(***************************************************************************)
(* fail, lines 102-109: the object printed; the caller exits with status 0 *)
(***************************************************************************)
fail_output(msg) ==
    [text |-> [fmt |-> "N/A"],
     tooltip |-> [fmt |-> "span", foreground |-> FG_HEADER, msg |-> msg]]

(***************************************************************************)
(* get_location_by_ip, lines 112-123                                       *)
(* ip is the outcome of the request to checkip.amazonaws.com, geo the      *)
(* outcome of the request to ip-api.com: a status and the JSON body.       *)
(***************************************************************************)
\* faulty variant: a missing "lon" defaults to 0.0 like a missing "city"
get_location_by_ip_lon_default(ip, geo) ==
    IF ip # "ok" THEN <<0, 0, "Your Location">>
    ELSE IF geo.status # "ok" THEN <<0, 0, "Your Location">>
    ELSE IF "lat" \notin DOMAIN geo.body THEN <<0, 0, "Your Location">>
    ELSE <<geo.body.lat, Get(geo.body, "lon", 0), Get(geo.body, "city", "Your Location")>>

get_location_by_ip(ip, geo) ==
    IF ip # "ok" THEN <<0, 0, "Your Location">>
    ELSE IF geo.status # "ok" THEN <<0, 0, "Your Location">>
    ELSE IF "lat" \notin DOMAIN geo.body THEN <<0, 0, "Your Location">>
    ELSE IF "lon" \notin DOMAIN geo.body THEN <<0, 0, "Your Location">>
    ELSE <<geo.body.lat, geo.body.lon, Get(geo.body, "city", "Your Location")>>

\* the requests get_location_by_ip sends, in order, each with its outcome
location_requests(ip, geo) ==
    IF ip # "ok" THEN << [to |-> "checkip", response |-> [status |-> ip]] >>
    ELSE << [to |-> "checkip", response |-> [status |-> ip]],
            [to |-> "ip-api", response |-> geo] >>

\* the request fetch_weather_data sends, line 142, with its outcome
forecast_request(url, status) ==
    [to |-> "open-meteo", url |-> url, response |-> [status |-> status]]

\* build_api_url, lines 126-136
build_api_url(lat, lon) == [host |-> "api.open-meteo.com", latitude |-> lat, longitude |-> lon]

(***************************************************************************)
(* main, lines 332-333: the status text                                    *)
(***************************************************************************)
status_text(w) ==
    [fmt |-> "text", icon |-> get_weather_info(w.code)[1],
     color |-> temp_to_color(w.temp), temp |-> w.temp]

(***************************************************************************)
(* main, lines 335-342: the four sections, or the first exception raised   *)
(***************************************************************************)
build_sections(d, w, location_name, n) ==
    IF "hourly" \notin DOMAIN d THEN Raise("KeyError")
    ELSE IF "daily" \notin DOMAIN d THEN Raise("KeyError")
    ELSE
    LET current_lines == build_current_section(w, location_name)
        rain == build_today_rain_info(d.hourly, n)
        today == build_hourly_forecast(d.hourly, n, n.date)
        tomorrow == build_tomorrow_forecast(d.hourly, n.date + 1)
        daily == build_daily_forecast(d.daily, DAYS_FORECAST)
    IN  IF ~rain.ok THEN rain
        ELSE IF ~today.ok THEN today
        ELSE IF ~tomorrow.ok THEN tomorrow
        ELSE IF ~daily.ok THEN daily
        ELSE Ok([current_lines |-> current_lines,
                 today_lines |-> rain.val \o today.val,
                 tomorrow_lines |-> tomorrow.val,
                 daily_lines |-> daily.val])

(***************************************************************************)
(* main, lines 344-364: the object printed on success                      *)
(***************************************************************************)
success_output(t, ls, location_name) ==
    [text |-> t,
     tooltip |-> build_tooltip(<<
         <<ls.current_lines, [fmt |-> "Current Weather - {}", name |-> location_name]>>,
         <<ls.today_lines, [fmt |-> "Today Forecast:"]>>,
         <<ls.tomorrow_lines, [fmt |-> "Tomorrow Forecast:"]>>,
         <<ls.daily_lines, [fmt |-> "Upcoming {}-day Forecast:", days |-> DAYS_FORECAST]>> >>),
     markup |-> "pango"]

(***************************************************************************)
(* Inputs of a run: what the network answers and what the clock shows      *)
(***************************************************************************)
\* yesterday, today, tomorrow and the day after
Today == 1

\* hours with and without a label in TIME_LABELS
HourSet == {6, 7}

\* datetime.now()
Nows == [date : {Today}, hour : HourSet, minute : {0, 30}]

\* d without the key k
Drop(d, k) == [x \in DOMAIN d \ {k} |-> d[x]]

\* xs without its last element
Shorter(xs) == SubSeq(xs, 1, Len(xs) - 1)

IpOutcomes == {"ok", "error"}

GeoBodies ==
    LET full == [lat |-> 48, lon |-> 2, city |-> "Paris"]
    IN  {full, Drop(full, "city"), Drop(full, "lat"), Drop(full, "lon"), None}

GeoOutcomes ==
    {[status |-> "ok", body |-> b] : b \in GeoBodies}
    \cup {[status |-> st, body |-> None] : st \in {"error", "http_error", "not_json"}}

FetchFailures == {"ConnectionError", "Timeout", "HTTPError", "JSONDecodeError"}

\* the hourly arrays of a forecast of n hours: 06:00 and 07:00 of today, of
\* tomorrow, and so on
HourlyOf(n, rainy) ==
    [time |-> [i \in 1..n |-> <<Today + ((i - 1) \div 2), 6 + ((i - 1) % 2), 0>>],
     temperature_2m |-> [i \in 1..n |-> 12 + 3 * i],
     apparent_temperature |-> [i \in 1..n |-> 11 + 3 * i],
     weathercode |-> [i \in 1..n |-> <<3, 61, 7>>[(i % 3) + 1]],
     relativehumidity_2m |-> [i \in 1..n |-> 50 + i],
     windspeed_10m |-> [i \in 1..n |-> 10 + i],
     precipitation_probability |-> [i \in 1..n |-> IF rainy THEN 20 * i ELSE 0],
     precipitation |-> [i \in 1..n |-> IF rainy THEN i ELSE 0]]

\* the daily arrays of a forecast of m days, today first
DailyOf(m) ==
    [time |-> [i \in 1..m |-> <<Today + i - 1>>],
     temperature_2m_max |-> [i \in 1..m |-> 20 + 4 * i],
     temperature_2m_min |-> [i \in 1..m |-> 10 + 2 * i],
     weathercode |-> [i \in 1..m |-> <<0, 95, 7>>[(i % 3) + 1]],
     precipitation_sum |-> [i \in 1..m |-> i]]

PayloadOf(n, m, rainy) ==
    [current_weather |-> [temperature |-> 20, weathercode |-> 3],
     hourly |-> HourlyOf(n, rainy),
     daily |-> DailyOf(m)]

HourlyKeys == DOMAIN HourlyOf(0, FALSE)

DailyKeys == DOMAIN DailyOf(0)

\* one structural defect of a payload: a key missing, an array one too short,
\* or a last timestamp that does not parse
Defects ==
    {<<"none">>}
    \cup {<<"drop", k>> : k \in {"current_weather", "hourly", "daily"}}
    \cup {<<"drop_current", k>> : k \in {"temperature", "weathercode"}}
    \cup {<<"drop_hourly", k>> : k \in HourlyKeys}
    \cup {<<"drop_daily", k>> : k \in DailyKeys}
    \cup {<<"short_hourly", k>> : k \in HourlyKeys}
    \cup {<<"short_daily", k>> : k \in DailyKeys}
    \cup {<<"bad_time", k>> : k \in {"hourly", "daily"}}

BadLast(xs) == IF xs = <<>> THEN xs ELSE [xs EXCEPT ![Len(xs)] = <<>>]

WithDefect(p, f) ==
    CASE f[1] = "none" -> p
      [] f[1] = "drop" -> Drop(p, f[2])
      [] f[1] = "drop_current" ->
            [p EXCEPT !.current_weather = Drop(p.current_weather, f[2])]
      [] f[1] = "drop_hourly" -> [p EXCEPT !.hourly = Drop(p.hourly, f[2])]
      [] f[1] = "drop_daily" -> [p EXCEPT !.daily = Drop(p.daily, f[2])]
      [] f[1] = "short_hourly" ->
            [p EXCEPT !.hourly = [p.hourly EXCEPT ![f[2]] = Shorter(p.hourly[f[2]])]]
      [] f[1] = "short_daily" ->
            [p EXCEPT !.daily = [p.daily EXCEPT ![f[2]] = Shorter(p.daily[f[2]])]]
      [] f[1] = "bad_time" ->
            [p EXCEPT ![f[2]] = [p[f[2]] EXCEPT !.time = BadLast(p[f[2]].time)]]

\* the bodies the forecast API may answer with: the JSON null, or an object
\* with at most one structural defect
Payloads ==
    {None} \cup
    {WithDefect(PayloadOf(n, m, rainy), f) :
        n \in 0..(MaxLen + 1), m \in 0..MaxLen, rainy \in BOOLEAN, f \in Defects}

(***************************************************************************)
(* The run of main(), lines 320-364                                        *)
(***************************************************************************)
Init ==
    /\ pc = "get_location"
    /\ loc = Unset
    /\ data = Unset
    /\ now = Unset
    /\ weather = Unset
    /\ text = Unset
    /\ lines = Unset
    /\ stdout = <<>>
    /\ exitcode = -1          \* the process has not exited
    /\ requests = <<>>
    /\ call = [fn |-> "none"]

\* line 321
GetLocation ==
    /\ pc = "get_location"
    /\ \E ip \in IpOutcomes, geo \in GeoOutcomes :
         /\ loc' = get_location_by_ip(ip, geo)
         /\ requests' = requests \o location_requests(ip, geo)
    /\ pc' = "fetch"
    /\ UNCHANGED <<data, now, weather, text, lines, stdout, exitcode, call>>

\* lines 322-323, fetch_weather_data lines 141-144: the request succeeds
FetchWeatherData ==
    /\ pc = "fetch"
    /\ requests' = Append(requests, forecast_request(build_api_url(loc[1], loc[2]), "ok"))
    /\ \E body \in Payloads : data' = body
    /\ pc' = "extract"
    /\ UNCHANGED <<loc, now, weather, text, lines, stdout, exitcode, call>>

\* faulty variant: fail prints and returns, fetch_weather_data returns None
FetchWeatherDataFailsAndReturns ==
    /\ pc = "fetch"
    /\ \E e \in FetchFailures :
         /\ requests' = Append(requests, forecast_request(build_api_url(loc[1], loc[2]), e))
         /\ stdout' = Append(stdout, fail_output(<<"Failed to fetch weather: ", e>>))
    /\ data' = None
    /\ pc' = "extract"
    /\ UNCHANGED <<loc, now, weather, text, lines, exitcode, call>>

\* lines 322-323, fetch_weather_data lines 145-146: the request raises
FetchWeatherDataFails ==
    /\ pc = "fetch"
    /\ \E e \in FetchFailures :
         /\ requests' = Append(requests, forecast_request(build_api_url(loc[1], loc[2]), e))
         /\ stdout' = Append(stdout, fail_output(<<"Failed to fetch weather: ", e>>))
    /\ exitcode' = 0
    /\ pc' = "exited"
    /\ UNCHANGED <<loc, data, now, weather, text, lines, call>>

\* lines 324-328: the extraction succeeds
ExtractCurrentWeather ==
    /\ pc = "extract"
    /\ \E n \in Nows :
         /\ extract_current_weather(data, n).ok
         /\ now' = n
         /\ weather' = extract_current_weather(data, n).val
    /\ pc' = "format"
    /\ UNCHANGED <<loc, data, text, lines, stdout, exitcode, requests, call>>

\* lines 324-330: the extraction raises
ExtractCurrentWeatherFails ==
    /\ pc = "extract"
    /\ \E n \in Nows :
         /\ ~extract_current_weather(data, n).ok
         /\ now' = n
    /\ stdout' = Append(stdout, fail_output(<<"Failed to parse current weather">>))
    /\ exitcode' = 0
    /\ pc' = "exited"
    /\ UNCHANGED <<loc, data, weather, text, lines, requests, call>>

\* lines 332-342: the sections are built
BuildSections ==
    /\ pc = "format"
    /\ build_sections(data, weather, loc[3], now).ok
    /\ text' = status_text(weather)
    /\ lines' = build_sections(data, weather, loc[3], now).val
    /\ pc' = "render"
    /\ UNCHANGED <<loc, data, now, weather, stdout, exitcode, requests, call>>

\* lines 332-342: a section builder raises, no handler is in scope: the
\* interpreter writes the traceback to stderr and exits with status 1
BuildSectionsRaises ==
    /\ pc = "format"
    /\ ~build_sections(data, weather, loc[3], now).ok
    /\ text' = status_text(weather)
    /\ exitcode' = 1
    /\ pc' = "exited"
    /\ UNCHANGED <<loc, data, now, weather, lines, stdout, requests, call>>

\* lines 344-364: the object is printed and main returns
Render ==
    /\ pc = "render"
    /\ stdout' = Append(stdout, success_output(text, lines, loc[3]))
    /\ exitcode' = 0
    /\ pc' = "exited"
    /\ UNCHANGED <<loc, data, now, weather, text, lines, requests, call>>

Next ==
    \/ GetLocation
    \/ FetchWeatherData
    \/ FetchWeatherDataFails
    \/ ExtractCurrentWeather
    \/ ExtractCurrentWeatherFails
    \/ BuildSections
    \/ BuildSectionsRaises
    \/ Render

Spec == Init /\ [][Next]_vars

(***************************************************************************)
(* The functions applied one at a time to inputs drawn from bounded sets:  *)
(* call is the function, its arguments and what it returns (ret)           *)
(***************************************************************************)
SeqsUpTo(S, k) == UNION {[1..j -> S] : j \in 0..k}

Dates == {Today - 1, Today, Today + 1}

\* the timestamps of an hourly array, and a string that does not parse
TimeStrs == {<<d, h, 0>> : d \in Dates, h \in HourSet} \cup {<<>>}

Temps == (10..MaxTemp) \cup {-5, 50, 100, 101, 120}

ProbSet == {0, 30, 60}

\* temperature and weather code of the i-th hourly entry
TempAt(i) == 11 + 4 * i

CodeAt(i) == <<3, 61, 7>>[(i % 3) + 1]

\* the forms of three parallel arrays: all as long as the first, one of the
\* others one shorter, or a key missing
Shapes == {"aligned", "short_2", "short_3", "no_1", "no_2", "no_3"}

Shaped(xs, shape, which) ==
    IF shape = "short_2" /\ which = 2 THEN Shorter(xs)
    ELSE IF shape = "short_3" /\ which = 3 THEN Shorter(xs)
    ELSE xs

DropIf(d, cond, k) == IF cond THEN Drop(d, k) ELSE d

\* hourly dicts for build_hourly_forecast and build_tomorrow_forecast
ForecastHourly(times, shape) ==
    LET full == [time |-> times,
                 temperature_2m |-> Shaped([i \in 1..Len(times) |-> TempAt(i)], shape, 2),
                 weathercode |-> Shaped([i \in 1..Len(times) |-> CodeAt(i)], shape, 3)]
    IN  DropIf(DropIf(DropIf(full, shape = "no_1", "time"),
                      shape = "no_2", "temperature_2m"), shape = "no_3", "weathercode")

\* hourly dicts for build_today_rain_info; the amount of entry i is 2^(i-1)
\* tenths of a millimetre, so a sum names the entries it is made of
RainHourly(times, probs, shape) ==
    LET full == [time |-> times,
                 precipitation_probability |-> probs,
                 precipitation |-> Shaped([i \in 1..Len(times) |-> 2 ^ (i - 1)], shape, 3)]
    IN  DropIf(DropIf(DropIf(full, shape = "no_1", "time"),
                      shape = "no_2", "precipitation_probability"),
               shape = "no_3", "precipitation")

\* payloads for extract_current_weather: each optional array present or not
ExtractPayload(times, present, shape) ==
    LET h == [time |-> times,
              apparent_temperature |-> Shaped([i \in 1..Len(times) |-> 10 + i], shape, 2),
              relativehumidity_2m |-> [i \in 1..Len(times) |-> 50 + i],
              windspeed_10m |-> Shaped([i \in 1..Len(times) |-> 5 + i], shape, 3)]
        full == [current_weather |-> [temperature |-> 20, weathercode |-> 3],
                 hourly |-> [k \in {"time"} \cup present |-> h[k]]]
    IN  CASE shape = "no_1" -> [full EXCEPT !.hourly = Drop(full.hourly, "time")]
          [] shape = "no_2" -> Drop(full, "current_weather")
          [] shape = "no_3" ->
                [full EXCEPT !.current_weather = Drop(full.current_weather, "temperature")]
          [] OTHER -> full

\* daily dicts for build_daily_forecast: m consecutive days from today on
ForecastDaily(m, shape) ==
    LET full == [time |-> [i \in 1..m |-> <<Today + i - 1>>],
                 temperature_2m_max |-> Shaped([i \in 1..m |-> 14 + 5 * i], shape, 2),
                 temperature_2m_min |-> [i \in 1..m |-> 8 + 3 * i],
                 weathercode |-> Shaped([i \in 1..m |-> CodeAt(i)], shape, 3)]
    IN  DropIf(DropIf(DropIf(full, shape = "no_1", "time"),
                      shape = "no_2", "temperature_2m_max"), shape = "no_3", "weathercode")

TempToColor ==
    /\ call.fn = "none"
    /\ \E t \in Temps :
         /\ call' = [fn |-> "temp_to_color", temp |-> t,
                     ret |-> temp_to_color(t)]
    /\ UNCHANGED mainVars

FindCurrentHourIndex ==
    /\ call.fn = "none"
    /\ \E times \in SeqsUpTo(TimeStrs, MaxLen + 1), n \in Nows :
         /\ call' = [fn |-> "find_current_hour_index", times |-> times, now |-> n,
                     ret |-> find_current_hour_index(times, n)]
    /\ UNCHANGED mainVars

ExtractCurrentWeatherCall ==
    /\ call.fn = "none"
    /\ \E times \in SeqsUpTo(TimeStrs, MaxLen), n \in Nows, shape \in Shapes,
          present \in SUBSET {"apparent_temperature", "relativehumidity_2m",
                              "windspeed_10m"} :
         /\ call' = [fn |-> "extract_current_weather",
                     data |-> ExtractPayload(times, present, shape), now |-> n,
                     ret |-> extract_current_weather(ExtractPayload(times, present, shape), n)]
    /\ UNCHANGED mainVars

BuildTodayRainInfo ==
    /\ call.fn = "none"
    /\ \E times \in SeqsUpTo(TimeStrs, MaxLen), n \in Nows, shape \in Shapes :
       \E probs \in [1..(IF shape = "short_2" /\ times # <<>>
                         THEN Len(times) - 1 ELSE Len(times)) -> ProbSet] :
         /\ call' = [fn |-> "build_today_rain_info",
                     hourly |-> RainHourly(times, probs, shape), now |-> n,
                     ret |-> build_today_rain_info(RainHourly(times, probs, shape), n)]
    /\ UNCHANGED mainVars

BuildHourlyForecast ==
    /\ call.fn = "none"
    /\ \E times \in SeqsUpTo(TimeStrs, MaxLen), n \in Nows, shape \in Shapes,
          for_date \in Dates :
         /\ call' = [fn |-> "build_hourly_forecast",
                     hourly |-> ForecastHourly(times, shape), now |-> n,
                     for_date |-> for_date,
                     ret |-> build_hourly_forecast(ForecastHourly(times, shape), n, for_date)]
    /\ UNCHANGED mainVars

BuildTomorrowForecast ==
    /\ call.fn = "none"
    /\ \E times \in SeqsUpTo(TimeStrs, MaxLen), shape \in Shapes, tomorrow \in Dates :
         /\ call' = [fn |-> "build_tomorrow_forecast",
                     hourly |-> ForecastHourly(times, shape), tomorrow |-> tomorrow,
                     ret |-> build_tomorrow_forecast(ForecastHourly(times, shape), tomorrow)]
    /\ UNCHANGED mainVars

BuildDailyForecast ==
    /\ call.fn = "none"
    /\ \E m \in 0..(MaxDays + 1), days \in 0..MaxDays, shape \in Shapes :
         /\ call' = [fn |-> "build_daily_forecast",
                     daily |-> ForecastDaily(m, shape), days |-> days,
                     ret |-> build_daily_forecast(ForecastDaily(m, shape), days)]
    /\ UNCHANGED mainVars

NextFn ==
    \/ TempToColor
    \/ FindCurrentHourIndex
    \/ ExtractCurrentWeatherCall
    \/ BuildTodayRainInfo
    \/ BuildHourlyForecast
    \/ BuildTomorrowForecast
    \/ BuildDailyForecast

SpecFn == Init /\ [][NextFn]_vars

(***************************************************************************)
(* Properties                                                              *)
(***************************************************************************)
IsUnset(x) == "unset" \in DOMAIN x

\* the least element of a non-empty set of integers
Least(S) == CHOOSE i \in S : \A j \in S : i <= j

\* the k-th smallest element of a set of integers
Kth(S, k) == CHOOSE i \in S : Cardinality({j \in S : j < i}) = k - 1

\* the elements of S in ascending order
Ascending(S) == [k \in 1..Cardinality(S) |-> Kth(S, k)]

RECURSIVE SumOver(_, _)
SumOver(f, S) ==
    IF S = {} THEN 0 ELSE LET i == Least(S) IN f[i] + SumOver(f, S \ {i})

AllParse(times) == \A i \in 1..Len(times) : IsIsoFormat(times[i])

\* the color of the first entry of the scale whose bound is >= t, else the last
FirstBoundColor(t) ==
    LET B == {i \in 1..Len(TEMP_COLORS) : TEMP_COLORS[i][1] >= t}
    IN  IF B = {} THEN TEMP_COLORS[Len(TEMP_COLORS)][2] ELSE TEMP_COLORS[Least(B)][2]

\* C9: for every temperature t, temp_to_color(t) is the color of the first
\* entry of the ascending scale whose inclusive bound is >= t, or the last
\* color if there is none; 14 is in the first bucket, 33 in the bucket of
\* bound 33, 50 and everything above 100 have the last color.
C9_TempToColor ==
    call.fn = "temp_to_color" =>
        /\ call.ret = FirstBoundColor(call.temp)
        /\ call.temp = 14 => call.ret = "#8caaee"
        /\ call.temp = 33 => call.ret = "#ea999c"
        /\ call.temp = 50 \/ call.temp > 100 => call.ret = "#e78284"

C9_Witness == call.fn = "temp_to_color" /\ call.temp = 33 /\ call.ret = "#ea999c"

\* the 1-based positions of times whose date and hour are those of n
SameHour(times, n) ==
    {i \in 1..Len(times) :
        /\ IsIsoFormat(times[i])
        /\ fromisoformat(times[i]).date = n.date
        /\ fromisoformat(times[i]).hour = n.hour}

\* the 0-based index the claim names: the lowest match, or 0
CurrentIndex(times, n) ==
    IF SameHour(times, n) = {} THEN 0 ELSE Least(SameHour(times, n)) - 1

\* C10: find_current_hour_index returns the lowest index whose timestamp has
\* the date and the hour of now, and 0 when none has; extract_current_weather
\* reads feels-like, humidity and wind speed at that index, from a filler
\* array as long as the time array when the field is absent (the current
\* temperature for feels-like, 0 for the others), and takes temperature and
\* weather code from the current sub-object whatever the index.
C10_CurrentHour ==
    /\ call.fn = "find_current_hour_index" =>
          /\ AllParse(call.times) => call.ret.ok
          /\ call.ret.ok => call.ret.val = CurrentIndex(call.times, call.now)
    /\ (call.fn = "extract_current_weather" /\ call.ret.ok) =>
          LET h == call.data.hourly
              cur == call.data.current_weather
              idx == CurrentIndex(h.time, call.now)
          IN  /\ idx + 1 <= Len(h.time)
              /\ call.ret.val.temp = cur.temperature
              /\ call.ret.val.code = cur.weathercode
              /\ call.ret.val.feels_like =
                    IF "apparent_temperature" \in DOMAIN h
                    THEN h.apparent_temperature[idx + 1] ELSE cur.temperature
              /\ call.ret.val.humidity =
                    IF "relativehumidity_2m" \in DOMAIN h
                    THEN h.relativehumidity_2m[idx + 1] ELSE 0
              /\ call.ret.val.windspeed =
                    IF "windspeed_10m" \in DOMAIN h
                    THEN h.windspeed_10m[idx + 1] ELSE 0

\* the second of two entries is the current hour, feels-like is absent
C10_Witness ==
    /\ call.fn = "extract_current_weather"
    /\ call.ret.ok
    /\ "apparent_temperature" \notin DOMAIN call.data.hourly
    /\ "relativehumidity_2m" \in DOMAIN call.data.hourly
    /\ CurrentIndex(call.data.hourly.time, call.now) = 1
    /\ call.ret.val.feels_like = 20
    /\ call.ret.val.humidity = 52

\* the three arrays of a forecast are parallel and every timestamp parses
WellFormed(d, k1, k2, k3) ==
    /\ {k1, k2, k3} \subseteq DOMAIN d
    /\ Len(d[k2]) = Len(d[k1])
    /\ Len(d[k3]) = Len(d[k1])
    /\ AllParse(d[k1])

\* the 1-based positions of the entries of today that are not before n
FutureToday(times, n) ==
    {i \in 1..Len(times) :
        /\ fromisoformat(times[i]).date = n.date
        /\ ~(Minutes(fromisoformat(times[i])) < Minutes(n))}

\* C8: build_hourly_forecast(hourly, now, now.date()) emits one line per entry
\* whose date is today's and whose timestamp is not strictly before now, in
\* array order, and no other line; when no entry qualifies the result is
\* exactly the one line "Hourly forecast unavailable".
C8_HourlyFilter ==
    (/\ call.fn = "build_hourly_forecast"
     /\ call.for_date = call.now.date
     /\ WellFormed(call.hourly, "time", "temperature_2m", "weathercode")) =>
        LET h == call.hourly
            Q == Ascending(FutureToday(h.time, call.now))
        IN  /\ call.ret.ok
            /\ Q # <<>> =>
                  call.ret.val = [k \in 1..Len(Q) |->
                               hourly_line(fromisoformat(h.time[Q[k]]),
                                           h.temperature_2m[Q[k]], h.weathercode[Q[k]])]
            /\ Q = <<>> => call.ret.val = << [fmt |-> "Hourly forecast unavailable"] >>

\* one entry is before now and dropped, the other is kept
C8_Witness ==
    /\ call.fn = "build_hourly_forecast"
    /\ call.for_date = call.now.date
    /\ WellFormed(call.hourly, "time", "temperature_2m", "weathercode")
    /\ Len(call.hourly.time) = 2
    /\ FutureToday(call.hourly.time, call.now) = {2}
    /\ fromisoformat(call.hourly.time[1]).date = call.now.date
    /\ call.ret.ok
    /\ Len(call.ret.val) = 1
    /\ call.ret.val[1].temp = TempAt(2)

\* the arrays build_today_rain_info reads, an absent one replaced by zeros
RainArr(h) == Get(h, "precipitation_probability", Repeat(0, Len(h.time)))

PrecipArr(h) == Get(h, "precipitation", Repeat(0, Len(h.time)))

RainWellFormed(h) ==
    /\ "time" \in DOMAIN h
    /\ AllParse(h.time)
    /\ Len(RainArr(h)) = Len(h.time)
    /\ Len(PrecipArr(h)) = Len(h.time)

\* the future entries of today with a positive probability
RainyEntries(h, n) == {i \in FutureToday(h.time, n) : RainArr(h)[i] > 0}

\* C6: build_today_rain_info returns a non-empty block if and only if an
\* entry of today at or after now has a precipitation probability > 0. The
\* block reports the maximum probability over the entries of today at or
\* after now, the time of the first of them with a probability > 0 (never
\* "None predicted"), and the sum of the amounts over all of them; an entry
\* before now or of another date contributes to none of the three.
C6_RainInfo ==
    (call.fn = "build_today_rain_info" /\ RainWellFormed(call.hourly)) =>
        LET h == call.hourly
            Q == FutureToday(h.time, call.now)
            P == RainyEntries(h, call.now)
        IN  /\ call.ret.ok
            /\ call.ret.val # <<>> <=> P # {}
            /\ P # {} =>
                  /\ Len(call.ret.val) = 4
                  /\ call.ret.val[1].fmt = "chance"
                  /\ call.ret.val[1].value \in {RainArr(h)[i] : i \in Q}
                  /\ \A i \in Q : RainArr(h)[i] <= call.ret.val[1].value
                  /\ call.ret.val[2] =
                        [fmt |-> "start",
                         value |-> strftime_IMp(fromisoformat(h.time[Least(P)]))]
                  /\ call.ret.val[3] = [fmt |-> "total", value |-> SumOver(PrecipArr(h), Q)]
                  /\ call.ret.val[4] = [fmt |-> "empty"]

\* the first entry is of today, before now and the rainiest: it is left out
C6_Witness ==
    /\ call.fn = "build_today_rain_info"
    /\ RainWellFormed(call.hourly)
    /\ Len(call.hourly.time) = 2
    /\ "precipitation" \in DOMAIN call.hourly
    /\ FutureToday(call.hourly.time, call.now) = {2}
    /\ fromisoformat(call.hourly.time[1]).date = call.now.date
    /\ RainArr(call.hourly) = <<60, 30>>
    /\ call.ret.ok
    /\ call.ret.val # <<>>
    /\ call.ret.val[1].value = 30
    /\ call.ret.val[3].value = 2

DailyWellFormed(d) ==
    /\ {"time", "temperature_2m_max", "temperature_2m_min", "weathercode"}
          \subseteq DOMAIN d
    /\ Len(d.temperature_2m_max) = Len(d.time)
    /\ Len(d.temperature_2m_min) = Len(d.time)
    /\ Len(d.weathercode) = Len(d.time)
    /\ AllParse(d.time)

\* the lines of the 0-based indices 1 .. last of d, in ascending order
DailyLines(d, last) ==
    [k \in 1..last |->
        daily_line(d.time, d.temperature_2m_max, d.temperature_2m_min, d.weathercode, k)]

\* C7 as stated: build_daily_forecast(daily, days) never returns more than
\* min(days, len(daily.time) - 1) lines, never renders index 0, and renders
\* exactly the indices 1 .. min(days, len(daily.time) - 1) in ascending order.
C7_Original ==
    (call.fn = "build_daily_forecast" /\ DailyWellFormed(call.daily)) =>
        LET bound == Min(call.days, Len(call.daily.time) - 1)
        IN  /\ call.ret.ok
            /\ Len(call.ret.val) <= bound
            /\ call.ret.val = DailyLines(call.daily, bound)

\* C7: build_daily_forecast(daily, days) returns exactly
\* max(0, min(days, len(daily.time) - 1)) lines: the lines of the indices
\* 1 .. min(days, len(daily.time) - 1) in ascending order, one each, never
\* one of index 0; for an empty daily array that is no line, which is more
\* than min(days, len - 1) = -1.
C7_DailyBound ==
    (call.fn = "build_daily_forecast" /\ DailyWellFormed(call.daily)) =>
        LET bound == Min(call.days, Len(call.daily.time) - 1)
        IN  /\ call.ret.ok
            /\ Len(call.ret.val) = (IF bound < 0 THEN 0 ELSE bound)
            /\ call.ret.val = DailyLines(call.daily, bound)
            /\ \A k \in 1..Len(call.ret.val) :
                  call.ret.val[k].max_temp = call.daily.temperature_2m_max[k + 1]

\* the horizon cuts a longer array, and the line of today is not rendered
C7_Witness ==
    /\ call.fn = "build_daily_forecast"
    /\ DailyWellFormed(call.daily)
    /\ Len(call.daily.time) = 4
    /\ call.days = 2
    /\ call.ret.ok
    /\ Len(call.ret.val) = 2
    /\ call.ret.val[1].max_temp = call.daily.temperature_2m_max[2]

\* C5 as stated: build_today_rain_info returns an empty sequence when no rain
\* is predicted, and build_hourly_forecast, build_tomorrow_forecast and
\* build_daily_forecast each return at least one line for every well-formed
\* input, a daily array of length 0 or 1 and a horizon of 0 included.
C5_Original ==
    /\ (call.fn = "build_today_rain_info" /\ RainWellFormed(call.hourly)
            /\ RainyEntries(call.hourly, call.now) = {}) => call.ret = Ok(<<>>)
    /\ (call.fn = "build_hourly_forecast"
            /\ WellFormed(call.hourly, "time", "temperature_2m", "weathercode")) =>
          call.ret.ok /\ Len(call.ret.val) >= 1
    /\ (call.fn = "build_tomorrow_forecast"
            /\ WellFormed(call.hourly, "time", "temperature_2m", "weathercode")) =>
          call.ret.ok /\ Len(call.ret.val) >= 1
    /\ (call.fn = "build_daily_forecast" /\ DailyWellFormed(call.daily)) =>
          call.ret.ok /\ Len(call.ret.val) >= 1

\* C5: build_today_rain_info returns an empty sequence when no rain is
\* predicted; build_hourly_forecast and build_tomorrow_forecast return at
\* least one line for every well-formed input, a placeholder line when no
\* entry matches; build_daily_forecast has no placeholder: it returns at
\* least one line exactly when the horizon is at least 1 and the daily array
\* has at least 2 entries, and an empty sequence otherwise.
C5_EmptyResults ==
    /\ (call.fn = "build_today_rain_info" /\ RainWellFormed(call.hourly)
            /\ RainyEntries(call.hourly, call.now) = {}) => call.ret = Ok(<<>>)
    /\ (call.fn = "build_hourly_forecast"
            /\ WellFormed(call.hourly, "time", "temperature_2m", "weathercode")) =>
          /\ call.ret.ok
          /\ Len(call.ret.val) >= 1
          /\ (call.for_date = call.now.date
                /\ FutureToday(call.hourly.time, call.now) = {}) =>
                call.ret.val = << [fmt |-> "Hourly forecast unavailable"] >>
    /\ (call.fn = "build_tomorrow_forecast"
            /\ WellFormed(call.hourly, "time", "temperature_2m", "weathercode")) =>
          /\ call.ret.ok
          /\ Len(call.ret.val) >= 1
          /\ (\A i \in 1..Len(call.hourly.time) :
                 \/ fromisoformat(call.hourly.time[i]).date # call.tomorrow
                 \/ fromisoformat(call.hourly.time[i]).hour \notin {6, 12, 15, 18}) =>
                call.ret.val = << [fmt |-> "Tomorrow forecast unavailable"] >>
    /\ (call.fn = "build_daily_forecast" /\ DailyWellFormed(call.daily)) =>
          /\ call.ret.ok
          /\ Len(call.ret.val) >= 1 <=> (call.days >= 1 /\ Len(call.daily.time) >= 2)

\* a daily array of today alone: no line, and no placeholder
C5_Witness ==
    /\ call.fn = "build_daily_forecast"
    /\ DailyWellFormed(call.daily)
    /\ Len(call.daily.time) = 1
    /\ call.days >= 1
    /\ call.ret = Ok(<<>>)

\* the forecast requests of the run
ForecastRequests == {i \in 1..Len(requests) : requests[i].to = "open-meteo"}

FetchFailed == \E i \in ForecastRequests : requests[i].response.status # "ok"

\* C1 as stated: every run of main() ends with exit status 0 having written
\* exactly one JSON object to standard output, with the keys text, tooltip and
\* markup on the success path and text and tooltip on a failure path; no run
\* ends with no object, with two objects or with another exit status.
C1_OneObjectExitSuccess ==
    /\ Len(stdout) <= 1
    /\ pc = "exited" =>
          /\ exitcode = 0
          /\ Len(stdout) = 1
          /\ DOMAIN stdout[1] \in {{"text", "tooltip", "markup"}, {"text", "tooltip"}}

\* the payload fails to parse: in extract_current_weather or in a builder
ParseFails ==
    LET r == extract_current_weather(data, now)
    IN  ~r.ok \/ ~build_sections(data, r.val, loc[3], now).ok

\* C2 as stated: a failure while parsing the payload, in
\* extract_current_weather or in a section builder called from main, replaces
\* the whole output by the fallback object (text "N/A", a tooltip in the
\* heading color, no markup key) and the process exits with status 0.
C2_ParseFailureFallback ==
    (pc = "exited" /\ ~IsUnset(now) /\ ParseFails) =>
        /\ exitcode = 0
        /\ Len(stdout) = 1
        /\ DOMAIN stdout[1] = {"text", "tooltip"}
        /\ stdout[1].text = [fmt |-> "N/A"]
        /\ stdout[1].tooltip.foreground = FG_HEADER

\* C3: when the forecast fetch fails, fetch_weather_data does not return to
\* main: the run has printed exactly the object with text "N/A" and the
\* tooltip "Failed to fetch weather: <reason>" in the span of color #f4b8e4,
\* without a markup key, has exited with status 0, and no later stage has
\* run; a run sends at most one forecast request.
C3_FetchFailure ==
    /\ Cardinality(ForecastRequests) <= 1
    /\ FetchFailed =>
          /\ pc = "exited"
          /\ exitcode = 0
          /\ \E i \in ForecastRequests :
                stdout = << [text |-> [fmt |-> "N/A"],
                             tooltip |-> [fmt |-> "span", foreground |-> "#f4b8e4",
                                          msg |-> <<"Failed to fetch weather: ",
                                                    requests[i].response.status>>]] >>
          /\ IsUnset(data) /\ IsUnset(now) /\ IsUnset(weather)
          /\ IsUnset(text) /\ IsUnset(lines)

C3_Witness ==
    /\ FetchFailed
    /\ pc = "exited"
    /\ stdout[1].tooltip.msg = <<"Failed to fetch weather: ", "Timeout">>

\* the location the claim names for the outcomes of the two lookups
ExpectedLocation ==
    LET ip == requests[1].response
    IN  IF ip.status # "ok" THEN <<0, 0, "Your Location">>
        ELSE LET geo == requests[2].response
             IN  IF \/ geo.status # "ok"
                    \/ "lat" \notin DOMAIN geo.body
                    \/ "lon" \notin DOMAIN geo.body
                 THEN <<0, 0, "Your Location">>
                 ELSE <<geo.body.lat, geo.body.lon,
                        IF "city" \in DOMAIN geo.body THEN geo.body.city
                        ELSE "Your Location">>

\* C4: get_location_by_ip never raises and never ends the run: after a failure
\* of either lookup (the request fails, a non-success status, a body that is
\* no JSON, lat or lon missing) it returns (0.0, 0.0, "Your Location"),
\* otherwise the lat and lon of the response with its city, or with
\* "Your Location" if only the city is missing; main then sends the forecast
\* request with those coordinates.
C4_LocationNeverAborts ==
    pc # "get_location" =>
        /\ loc = ExpectedLocation
        /\ pc = "fetch" => (stdout = <<>> /\ exitcode = -1)
        /\ pc # "fetch" =>
              \E i \in ForecastRequests :
                  /\ requests[i].url.latitude = loc[1]
                  /\ requests[i].url.longitude = loc[2]

\* the geolocation answers without "lon": the forecast is fetched for (0, 0)
C4_Witness ==
    /\ pc = "extract"
    /\ Len(requests) = 3
    /\ requests[2].response.status = "ok"
    /\ "lat" \in DOMAIN requests[2].response.body
    /\ "lon" \notin DOMAIN requests[2].response.body
    /\ loc = <<0, 0, "Your Location">>
    /\ requests[3].url.latitude = 0

====
